---- MODULE Spec2Model ----
(***************************************************************************)
(* svg2pdf: src/main.rs.  A directory of SVG files is enumerated, every    *)
(* file is rendered by one task of a rayon parallel iterator, the results  *)
(* are collected, and a lopdf Document is built page by page and saved.    *)
(***************************************************************************)
EXTENDS Integers, Sequences, FiniteSets, TLC

(* ------------------------------ bounds -------------------------------- *)
\* longest directory listing explored
MaxEntries == 3
\* size of the rayon worker pool (tasks that may be in flight together)
NumThreads == 2

(* ------------------------- program constants -------------------------- *)
\* main.rs:97  let width = 960;
Width == 960
\* main.rs:98  let height = 720;
Height == 720
\* main.rs:151 ("BitsPerComponent", Object::Integer(8))
BitsPerComponent == 8
\* main.rs:116 .chunks(4): bytes per RGBA pixel of the pixmap
RgbaBytes == 4
\* main.rs:117 chunk[0..3]: bytes kept per pixel
RgbBytes == 3

None == [none |-> TRUE]
NoPath == 0
\* pages_id before line 139 runs: no ObjectId (lopdf numbers objects from 1)
NoId == << 0, 0 >>

(* --------------------------- the environment -------------------------- *)
\* the values of --scale explored, in tenths (main.rs:29 default 0.1; the
\* test uses 2.0)
Scales == {1, 20}

\* what a file of the directory holds: unreadable, not SVG markup, or an SVG
\* document with an intrinsic size
Files ==
  { [readable |-> FALSE, valid |-> FALSE, w |-> 0,    h |-> 0],
    [readable |-> TRUE,  valid |-> FALSE, w |-> 0,    h |-> 0],
    [readable |-> TRUE,  valid |-> TRUE,  w |-> 100,  h |-> 100] }

NotesTxt == [readable |-> TRUE, valid |-> FALSE, w |-> 0, h |-> 0]

UpperCaseSvg == [readable |-> TRUE, valid |-> TRUE, w |-> 2000, h |-> 50]

\* a directory entry: its extension as written on disk and its content
\* (x.svg with every content, X.SVG with a valid document of another size,
\* notes.txt)
DirEntries ==
  { [ext |-> "svg", file |-> f] : f \in Files }
    \cup { [ext |-> "SVG", file |-> UpperCaseSvg], [ext |-> "txt", file |-> NotesTxt] }

RECURSIVE SeqsUpTo(_, _)
SeqsUpTo(S, n) ==
  IF n = 0 THEN { <<>> }
  ELSE LET shorter == SeqsUpTo(S, n - 1)
       IN  shorter \cup { Append(s, x) : s \in { t \in shorter : Len(t) = n - 1 }, x \in S }

VARIABLES
  pc,             \* where main is
  scale,          \* args.scale, in tenths
  dir,            \* the directory listing, in the order read_dir yields it
  entries,        \* main.rs:54 entries: the paths (positions in dir) kept
  task,           \* state of the render closure of each enumerate() index
  results,        \* what each finished closure returned
  completed,      \* the enumerate() indices in the order their closures returned
  saved_error,    \* the error kept by collect::<Result<_>>
  reads,          \* how many times fs::read was called on each path
  progress,       \* the progress bar: position, length, finished
  rendered_pages, \* main.rs:80 rendered_pages
  doc,            \* the lopdf Document
  pages_id,       \* main.rs:139
  page_ids,       \* main.rs:140
  output,         \* what is at args.output
  exit            \* what main returned

vars == << pc, scale, dir, entries, task, results, completed, saved_error, reads,
           progress, rendered_pages, doc, pages_id, page_ids, output, exit >>

Range(f) == { f[x] : x \in DOMAIN f }

(* ------------------------ entry enumeration --------------------------- *)
\* str::to_lowercase on the extensions explored
ToLowercase(ext) ==
  CASE ext = "SVG" -> "svg"
    [] ext = "svg" -> "svg"
    [] ext = "txt" -> "txt"

\* main.rs:56-63 the filter closure
IsSvg(entry) == ToLowercase(entry.ext) = "svg"

\* main.rs:54-64 the paths of the entries kept, in listing order
RECURSIVE FilterFrom(_, _)
FilterFrom(d, i) ==
  IF i > Len(d) THEN <<>>
  ELSE IF IsSvg(d[i]) THEN <<i>> \o FilterFrom(d, i + 1)
  ELSE FilterFrom(d, i + 1)

SvgEntries(d) == FilterFrom(d, 1)

Init ==
  /\ pc = "start"
  /\ scale \in Scales
  /\ dir \in SeqsUpTo(DirEntries, MaxEntries)
  /\ entries = <<>>
  /\ task = <<>>
  /\ results = <<>>
  /\ completed = <<>>
  /\ saved_error = None
  /\ reads = [p \in 1..Len(dir) |-> 0]
  /\ progress = [pos |-> 0, len |-> 0, finished |-> FALSE]
  /\ rendered_pages = <<>>
  /\ doc = None
  /\ pages_id = NoId
  /\ page_ids = <<>>
  /\ output = [state |-> "untouched", doc |-> None]
  /\ exit = None

Err(text, path) == [err |-> text, path |-> path]
Ok == [ok |-> TRUE]

\* main.rs:54 fs::read_dir(..)? fails
ReadDirFails ==
  /\ pc = "start"
  /\ pc' = "done"
  /\ exit' = Err("read_dir", NoPath)
  /\ UNCHANGED << scale, dir, entries, task, results, completed, saved_error, reads,
                  progress, rendered_pages, doc, pages_id, page_ids, output >>

\* mutant: the list is not checked for emptiness
EnumerateUnchecked ==
  /\ pc = "start"
  /\ entries' = SvgEntries(dir)
  /\ pc' = "render"
  /\ task' = [i \in 1..Len(entries') |-> "pending"]
  /\ progress' = [pos |-> 0, len |-> Len(entries'), finished |-> FALSE]
  /\ results' = [i \in 1..Len(entries') |-> None]
  /\ UNCHANGED << scale, dir, completed, saved_error, reads,
                  rendered_pages, doc, pages_id, page_ids, output, exit >>

\* main.rs:54-76 enumerate, bail on an empty list, set the progress bar up
Enumerate ==
  /\ pc = "start"
  /\ entries' = SvgEntries(dir)
  /\ IF entries' = <<>>
     THEN /\ pc' = "done"
          /\ exit' = Err("No SVG files found in directory", NoPath)
          /\ UNCHANGED << task, progress >>
     ELSE /\ pc' = "render"
          /\ task' = [i \in 1..Len(entries') |-> "pending"]
          /\ progress' = [pos |-> 0, len |-> Len(entries'), finished |-> FALSE]
          /\ UNCHANGED exit
  /\ results' = [i \in 1..Len(entries') |-> None]
  /\ UNCHANGED << scale, dir, completed, saved_error, reads,
                  rendered_pages, doc, pages_id, page_ids, output >>

(* --------------------------- render closure --------------------------- *)
Path(i) == entries[i]
FileOf(i) == dir[Path(i)].file

Running == { i \in DOMAIN task : task[i] = "read" }

\* rayon's ok(): the first error stored is the one kept
SaveError(saved, e) == IF saved = None THEN e ELSE saved

\* main.rs:89 with_context(|| format!("Failed to read SVG file: {:?}", entry.path()))
ReadError(path) == Err("Failed to read SVG file", path)
\* main.rs:93 with_context(|| format!("Failed to parse SVG file: {:?}", entry.path()))
ParseError(path) == Err("Failed to parse SVG file", path)
\* main.rs:101 .context("Failed to create pixel buffer")
PixmapError(path) == Err("Failed to create pixel buffer", NoPath)

\* main.rs:92 Tree::from_data: the parsed tree and its intrinsic size
TreeFromData(path, file) == [path |-> path, size |-> [w |-> file.w, h |-> file.h]]

\* mutant: the raster as wide as the source scaled, as the test computes it
ScaledWidth(size, sc) == (size.w * sc) \div 10

\* main.rs:96-98 the raster dimensions; size is read and not used
RasterWidth(size, sc) == Width
RasterHeight(size, sc) == Height

\* main.rs:101-105 Pixmap::new and the white fill: width * height RGBA pixels
PixmapNew(w, h) ==
  [width |-> w, height |-> h, len |-> w * h * RgbaBytes, background |-> "white",
   drawn |-> None]

\* main.rs:108 Transform::from_scale(scale, scale)
FromScale(sx, sy) == [sx |-> sx, kx |-> 0, ky |-> 0, sy |-> sy, tx |-> 0, ty |-> 0]

\* main.rs:111 resvg::render draws the tree under the transform into the pixmap
Render(tree, transform, pixmap) ==
  [pixmap EXCEPT !.drawn = [tree |-> tree.path, transform |-> transform]]

\* mutant: the alpha byte of every pixel is kept
ToRgbKeepingAlpha(pixmap) ==
  [len |-> pixmap.len, pixels |-> pixmap.drawn]

\* main.rs:114-118 chunks(4), the first three bytes of every chunk
ToRgb(pixmap) ==
  LET chunks == (pixmap.len + RgbaBytes - 1) \div RgbaBytes
  IN  [len |-> chunks * RgbBytes, pixels |-> pixmap.drawn]

\* mutant: the index counted from one
PageDataOneBased(index, width, height, rgb_data) ==
  [index |-> index + 1, width |-> width, height |-> height, rgb_data |-> rgb_data]

\* main.rs:126-131
PageData(index, width, height, rgb_data) ==
  [index |-> index, width |-> width, height |-> height, rgb_data |-> rgb_data]

\* mutant: the progress bar is advanced for a task that failed too
TaskFailsCounting(i, e) ==
  /\ task' = [task EXCEPT ![i] = "failed"]
  /\ saved_error' = SaveError(saved_error, e)
  /\ completed' = Append(completed, i)
  /\ progress' = [progress EXCEPT !.pos = @ + 1]
  /\ UNCHANGED results

\* mutant: a task that failed is put back to be run again
TaskFailsRetrying(i, e) ==
  /\ task' = [task EXCEPT ![i] = "pending"]
  /\ UNCHANGED << saved_error, completed, results, progress >>

\* the closure returned Err: collect keeps the first error
TaskFails(i, e) ==
  /\ task' = [task EXCEPT ![i] = "failed"]
  /\ saved_error' = SaveError(saved_error, e)
  /\ completed' = Append(completed, i)
  /\ UNCHANGED << results, progress >>

\* main.rs:83-89 a worker takes item i and reads the file
TaskRead(i) ==
  /\ pc = "render"
  /\ task[i] = "pending"
  /\ Cardinality(Running) < NumThreads
  /\ reads' = [reads EXCEPT ![Path(i)] = @ + 1]
  /\ IF FileOf(i).readable
     THEN /\ task' = [task EXCEPT ![i] = "read"]
          /\ UNCHANGED << results, completed, saved_error, progress >>
     ELSE TaskFails(i, ReadError(Path(i)))
  /\ UNCHANGED << pc, scale, dir, entries, rendered_pages, doc, pages_id, page_ids,
                  output, exit >>

\* main.rs:92-131 parse, allocate, render, convert, report progress, return.
\* Pixmap::new returns an Option whose None line 101 turns into an error:
\* whether the buffer is allocated is the library's answer, either one here.
TaskRender(i) ==
  /\ pc = "render"
  /\ task[i] = "read"
  /\ IF ~FileOf(i).valid
     THEN TaskFails(i, ParseError(Path(i)))
     ELSE LET tree == TreeFromData(Path(i), FileOf(i))
              width == RasterWidth(tree.size, scale)
              height == RasterHeight(tree.size, scale)
          IN  \E allocated \in BOOLEAN :
                IF ~allocated
                THEN TaskFails(i, PixmapError(Path(i)))
                ELSE LET pixmap == Render(tree, FromScale(scale, scale),
                                          PixmapNew(width, height))
                     IN  /\ progress' = [progress EXCEPT !.pos = @ + 1]
                         /\ results' = [results EXCEPT
                                          ![i] = PageData(i - 1, width, height, ToRgb(pixmap))]
                         /\ task' = [task EXCEPT ![i] = "ok"]
                         /\ completed' = Append(completed, i)
                         /\ UNCHANGED saved_error
  /\ UNCHANGED << pc, scale, dir, entries, reads, rendered_pages, doc, pages_id,
                  page_ids, output, exit >>

\* mutant: the results in the order the closures returned
CollectByCompletion(res, order) == [k \in 1..Len(order) |-> res[order[k]]]

\* rayon's ordered collect: the results by position in the parallel iterator
CollectVec(res, order) == [k \in 1..Len(order) |-> res[k]]

\* the pages of the closures that returned Ok, by position
RECURSIVE OkFrom(_, _)
OkFrom(res, k) ==
  IF k > Len(res) THEN << >>
  ELSE IF res[k] = None THEN OkFrom(res, k + 1)
  ELSE << res[k] >> \o OkFrom(res, k + 1)

\* mutant: the errors are dropped and the pages that rendered are kept
\* (filter_map(Result::ok) in place of collect::<Result<_>>()?)
CollectKeepingOk ==
  /\ pc = "render"
  /\ \A i \in DOMAIN task : task[i] \in {"ok", "failed"}
  /\ rendered_pages' = OkFrom(results, 1)
  /\ progress' = [progress EXCEPT !.finished = TRUE]
  /\ pc' = "rendered"
  /\ UNCHANGED << scale, dir, entries, task, results, completed, saved_error, reads,
                  doc, pages_id, page_ids, output, exit >>

\* main.rs:133-135 collect::<Result<Vec<_>>>()? and finish_with_message
Collect ==
  /\ pc = "render"
  /\ Running = {}
  /\ IF saved_error # None
     THEN /\ pc' = "done"
          /\ exit' = saved_error
          /\ UNCHANGED << rendered_pages, progress >>
     ELSE /\ \A i \in DOMAIN task : task[i] = "ok"
          /\ rendered_pages' = CollectVec(results, completed)
          /\ progress' = [progress EXCEPT !.finished = TRUE]
          /\ pc' = "rendered"
          /\ UNCHANGED exit
  /\ UNCHANGED << scale, dir, entries, task, results, completed, saved_error, reads,
                  doc, pages_id, page_ids, output >>

(* ------------------------------ lopdf ---------------------------------- *)
\* an ObjectId is (number, generation)
ObjectId(n) == << n, 0 >>

\* main.rs:138 Document::with_version("1.5"): no object, an empty trailer
DocumentWithVersion(v) ==
  [version |-> v, max_id |-> 0, objects |-> << >>, trailer |-> << >>]

\* a map with key k set to v (BTreeMap::insert, Dictionary::set)
Insert(m, k, v) == (k :> v) @@ m

\* main.rs:139 Document::new_object_id: the next number, nothing stored
NewObjectId(d) == [d EXCEPT !.max_id = @ + 1]
\* the id the last new_object_id / add_object of d returned
LastId(d) == ObjectId(d.max_id)

\* mutant: the object is stored under the last id issued, no new id is taken
AddObjectReusingId(d, obj) == [d EXCEPT !.objects = Insert(@, LastId(d), obj)]

\* main.rs:156 Document::add_object: a fresh id, the object stored under it
AddObject(d, obj) ==
  LET e == NewObjectId(d)
  IN  [e EXCEPT !.objects = Insert(@, LastId(e), obj)]

\* mutant: the page tree is never stored
ObjectsInsertDropped(d, id, obj) == d

\* mutant: the page tree added as a new object, not under the id reserved for it
ObjectsInsertFresh(d, id, obj) == AddObject(d, obj)

\* main.rs:215 doc.objects.insert(pages_id, ..)
ObjectsInsert(d, id, obj) == [d EXCEPT !.objects = Insert(@, id, obj)]

\* main.rs:223 doc.trailer.set("Root", ..)
TrailerSet(d, key, ref) == [d EXCEPT !.trailer = Insert(@, key, ref)]

(* ------------------------- the objects of a page ----------------------- *)
\* main.rs:145-155 the image stream
ImageStream(page) ==
  [kind |-> "Stream",
   dict |-> [Type |-> "XObject", Subtype |-> "Image", Width |-> page.width,
             Height |-> page.height, ColorSpace |-> "DeviceRGB",
             BitsPerComponent |-> BitsPerComponent],
   content |-> page.rgb_data]

Operation(operator, operands) == [operator |-> operator, operands |-> operands]

\* mutant: the matrix with width and height exchanged
ContentOperationsSwapped(page) ==
  << Operation("q", << >>),
     Operation("cm", << page.height, 0, 0, page.width, 0, 0 >>),
     Operation("Do", << "Im1" >>),
     Operation("Q", << >>) >>

\* main.rs:159-174
ContentOperations(page) ==
  << Operation("q", << >>),
     Operation("cm", << page.width, 0, 0, page.height, 0, 0 >>),
     Operation("Do", << "Im1" >>),
     Operation("Q", << >>) >>

\* main.rs:180 Content::encode: every operation as its operands, then its operator
Encode(operations) ==
  [n \in 1..Len(operations) |-> << operations[n].operands, operations[n].operator >>]

\* main.rs:177-180 the content stream, with an empty dictionary
ContentStream(page) ==
  [kind |-> "Stream", dict |-> << >>, content |-> Encode(ContentOperations(page))]

\* mutant: the image registered under another name than the one painted
ResourcesIm0(image_ref) ==
  [kind |-> "Dictionary", dict |-> [XObject |-> [Im0 |-> image_ref]]]

\* main.rs:184-186
Resources(image_ref) ==
  [kind |-> "Dictionary", dict |-> [XObject |-> [Im1 |-> image_ref]]]

\* mutant: every page uses the resource dictionary of the first page
PageDictSharedResources(page, parent, resources_id, content_id) ==
  [kind |-> "Dictionary",
   dict |-> [Type |-> "Page", Parent |-> parent,
             MediaBox |-> << 0, 0, page.width, page.height >>,
             Resources |-> ObjectId(4), Contents |-> content_id]]

\* main.rs:190-204
PageDict(page, parent, resources_id, content_id) ==
  [kind |-> "Dictionary",
   dict |-> [Type |-> "Page", Parent |-> parent,
             MediaBox |-> << 0, 0, page.width, page.height >>,
             Resources |-> resources_id, Contents |-> content_id]]

\* main.rs:210-214
PagesDict(kids) ==
  [kind |-> "Dictionary",
   dict |-> [Type |-> "Pages", Count |-> Len(kids), Kids |-> kids]]

\* mutant: the catalog typed as a page tree
CatalogTypedPages(pages) ==
  [kind |-> "Dictionary", dict |-> [Type |-> "Pages", Pages |-> pages]]

\* main.rs:218-221
CatalogDict(pages) ==
  [kind |-> "Dictionary", dict |-> [Type |-> "Catalog", Pages |-> pages]]

(* --------------------------- document assembly ------------------------- *)
\* mutant: the document and the page tree's id are created before the tasks run
NewDocumentEarly ==
  /\ \/ /\ pc = "render"
        /\ doc = None
        /\ doc' = NewObjectId(DocumentWithVersion("1.5"))
        /\ pages_id' = LastId(doc')
        /\ page_ids' = << >>
        /\ UNCHANGED pc
     \/ /\ pc = "rendered"
        /\ doc # None
        /\ pc' = "build"
        /\ UNCHANGED << doc, pages_id, page_ids >>
  /\ UNCHANGED << scale, dir, entries, task, results, completed, saved_error, reads,
                  progress, rendered_pages, output, exit >>

\* mutant: an empty page tree is stored up front and replaced at the end
NewDocumentWithEmptyTree ==
  /\ pc = "rendered"
  /\ doc' = AddObject(DocumentWithVersion("1.5"), PagesDict(<< >>))
  /\ pages_id' = LastId(doc')
  /\ page_ids' = << >>
  /\ pc' = "build"
  /\ UNCHANGED << scale, dir, entries, task, results, completed, saved_error, reads,
                  progress, rendered_pages, output, exit >>

\* main.rs:138-140
NewDocument ==
  /\ pc = "rendered"
  /\ doc' = NewObjectId(DocumentWithVersion("1.5"))
  /\ pages_id' = LastId(doc')
  /\ page_ids' = << >>
  /\ pc' = "build"
  /\ UNCHANGED << scale, dir, entries, task, results, completed, saved_error, reads,
                  progress, rendered_pages, output, exit >>

\* main.rs:143-207 one turn of the loop over rendered_pages
BuildPage ==
  /\ pc = "build"
  /\ Len(page_ids) < Len(rendered_pages)
  /\ LET page == rendered_pages[Len(page_ids) + 1]
         d1 == AddObject(doc, ImageStream(page))
         image_ref == LastId(d1)
         d2 == AddObject(d1, ContentStream(page))
         content_id == LastId(d2)
         d3 == AddObject(d2, Resources(image_ref))
         resources_id == LastId(d3)
         d4 == AddObject(d3, PageDict(page, pages_id, resources_id, content_id))
         page_id == LastId(d4)
     IN  /\ doc' = d4
         /\ page_ids' = Append(page_ids, page_id)
  /\ UNCHANGED << pc, scale, dir, entries, task, results, completed, saved_error, reads,
                  progress, rendered_pages, pages_id, output, exit >>

\* main.rs:209-215 the page tree, stored under the id reserved for it
InsertPages ==
  /\ pc = "build"
  /\ Len(page_ids) = Len(rendered_pages)
  /\ doc' = ObjectsInsert(doc, pages_id, PagesDict(page_ids))
  /\ pc' = "catalog"
  /\ UNCHANGED << scale, dir, entries, task, results, completed, saved_error, reads,
                  progress, rendered_pages, pages_id, page_ids, output, exit >>

\* main.rs:217-223 the catalog and the trailer's Root
AddCatalog ==
  /\ pc = "catalog"
  /\ LET d == AddObject(doc, CatalogDict(pages_id))
     IN  doc' = TrailerSet(d, "Root", LastId(d))
  /\ pc' = "save"
  /\ UNCHANGED << scale, dir, entries, task, results, completed, saved_error, reads,
                  progress, rendered_pages, pages_id, page_ids, output, exit >>

\* main.rs:226-229 doc.save(&args.output)? writes the document as it is
Save ==
  /\ pc = "save"
  /\ output' = [state |-> "written", doc |-> doc]
  /\ exit' = Ok
  /\ pc' = "done"
  /\ UNCHANGED << scale, dir, entries, task, results, completed, saved_error, reads,
                  progress, rendered_pages, doc, pages_id, page_ids >>

\* main.rs:226 doc.save fails: the file could not be created, or the write broke off
SaveFails ==
  /\ pc = "save"
  /\ \E state \in {"untouched", "truncated"} : output' = [state |-> state, doc |-> None]
  /\ exit' = Err("save", NoPath)
  /\ pc' = "done"
  /\ UNCHANGED << scale, dir, entries, task, results, completed, saved_error, reads,
                  progress, rendered_pages, doc, pages_id, page_ids >>

Next ==
  \/ ReadDirFails
  \/ Enumerate
  \/ \E i \in DOMAIN task : TaskRead(i)
  \/ \E i \in DOMAIN task : TaskRender(i)
  \/ Collect
  \/ NewDocument
  \/ BuildPage
  \/ InsertPages
  \/ AddCatalog
  \/ Save
  \/ SaveFails

Spec == Init /\ [][Next]_vars
(* ------------------------ reading a document --------------------------- *)
\* the document under assembly once the trailer is set, and the one written
Assembled == pc \in {"save", "done"} /\ doc # None
Documents ==
  (IF Assembled THEN {doc} ELSE {}) \cup
  (IF output.state = "written" THEN {output.doc} ELSE {})

Ids(d) == DOMAIN d.objects
HasType(o, t) ==
  o.kind = "Dictionary" /\ "Type" \in DOMAIN o.dict /\ o.dict.Type = t
OfType(d, t) == { id \in Ids(d) : HasType(d.objects[id], t) }
IsResources(o) == o.kind = "Dictionary" /\ "XObject" \in DOMAIN o.dict
IsImage(o) == o.kind = "Stream" /\ "Subtype" \in DOMAIN o.dict

\* the references an object holds, with the key that holds each
RefsOf(o) ==
  IF o.kind = "Stream" THEN {}
  ELSE IF HasType(o, "Page")
       THEN { << "Parent", o.dict.Parent >>, << "Resources", o.dict.Resources >>,
              << "Contents", o.dict.Contents >> }
  ELSE IF HasType(o, "Pages") THEN { << "Kids", r >> : r \in Range(o.dict.Kids) }
  ELSE IF HasType(o, "Catalog") THEN { << "Pages", o.dict.Pages >> }
  ELSE IF IsResources(o) THEN { << "XObject", r >> : r \in Range(o.dict.XObject) }
  ELSE {}

Targets(o) == { kr[2] : kr \in RefsOf(o) }

\* the child list of the page tree the catalog of the trailer's Root names
KidsOf(d) == d.objects[d.objects[d.trailer["Root"]].dict.Pages].dict.Kids
\* the image stream a page paints
ImageOfPage(d, page_id) ==
  d.objects[d.objects[d.objects[page_id].dict.Resources].dict.XObject["Im1"]]

AllOk == task # << >> /\ \A i \in DOMAIN task : task[i] = "ok"

(* ------------------------------- claims -------------------------------- *)
\* C1: whatever the order in which the render closures return, the k-th child
\* of the page tree of the assembled document is the page whose image stream
\* holds the pixels rendered from the k-th enumerated file.
C1_PageOrderIsInputOrder ==
  \A d \in Documents :
    /\ Len(KidsOf(d)) = Len(entries)
    /\ \A k \in 1..Len(entries) :
         ImageOfPage(d, KidsOf(d)[k]).content.pixels.tree = entries[k]

\* two inputs behind a notes.txt, the second one finished first, document written
C1_Witness ==
  /\ output.state = "written"
  /\ Len(entries) = 2
  /\ entries[1] # 1
  /\ completed[1] = 2

\* C2: when every task succeeded, collect hands on exactly N pages with the
\* indices 0..N-1 in ascending order, and every input file was read exactly
\* once; no file is ever read twice and a file that is no input is never read.
C2_ExactlyNPagesInIndexOrder ==
  /\ \A p \in DOMAIN reads :
       reads[p] <= 1 /\ (reads[p] = 1 => p \in Range(entries))
  /\ Len(completed) = Cardinality(Range(completed))
  /\ pc \notin {"start", "render"} /\ AllOk =>
       /\ Len(rendered_pages) = Len(entries)
       /\ \A k \in 1..Len(rendered_pages) : rendered_pages[k].index = k - 1
       /\ \A k \in 1..Len(entries) : reads[entries[k]] = 1
       /\ Len(completed) = Len(entries)

\* two inputs collected after finishing in reverse order
C2_Witness ==
  /\ pc = "rendered"
  /\ Len(rendered_pages) = 2
  /\ completed = << 2, 1 >>

\* the inputs that cannot be read or parsed, or whose task failed
Failing ==
  { i \in DOMAIN task :
      task[i] = "failed" \/ ~FileOf(i).readable \/ ~FileOf(i).valid }

IsErr(r) == "err" \in DOMAIN r

\* C3: if an input fails to read, parse or rasterize, no document object is
\* ever created, no page is handed on, the output path is never written to and
\* the run ends in an error.
C3_AllOrNothing ==
  Failing # {} =>
    /\ doc = None
    /\ rendered_pages = << >>
    /\ page_ids = << >>
    /\ output.state = "untouched"
    /\ pc \in {"render", "done"}
    /\ (pc = "done" => IsErr(exit))

\* one input rendered, another one failed, the run over
C3_Witness ==
  /\ pc = "done"
  /\ \E i, j \in DOMAIN task : task[i] = "ok" /\ task[j] = "failed"

EmptyInputError == Err("No SVG files found in directory", NoPath)

\* C4: if no directory entry has the svg extension, the run fails with the
\* empty-input error once the directory is listed, and no file is opened, no
\* render task exists and no document object or identifier is ever created.
C4_EmptyInputFailsFast ==
  (\A p \in DOMAIN dir : ~IsSvg(dir[p])) =>
    /\ \A p \in DOMAIN reads : reads[p] = 0
    /\ task = << >>
    /\ doc = None
    /\ pages_id = NoId
    /\ output.state = "untouched"
    /\ pc \in {"start", "done"}
    /\ (pc = "done" /\ exit # Err("read_dir", NoPath) => exit = EmptyInputError)

\* a directory that holds only files without the svg extension, the run over
C4_Witness ==
  /\ Len(dir) >= 2
  /\ pc = "done"
  /\ exit = EmptyInputError

\* C5: in the document that is serialized every reference resolves to an
\* object of the object table, and the page tree's Count equals the length of
\* its Kids equals the number of inputs.
C5_ReferentialIntegrity ==
  \A d \in Documents :
    /\ \A id \in Ids(d) : Targets(d.objects[id]) \subseteq Ids(d)
    /\ "Root" \in DOMAIN d.trailer /\ d.trailer["Root"] \in Ids(d)
    /\ \A t \in OfType(d, "Pages") :
         /\ d.objects[t].dict.Count = Len(d.objects[t].dict.Kids)
         /\ d.objects[t].dict.Count = Len(entries)
    /\ OfType(d, "Pages") # {}

\* a document of three pages about to be saved
C5_Witness ==
  /\ pc = "save"
  /\ Len(entries) = 3
  /\ Cardinality(Ids(doc)) > 3

RenderErrors ==
  {"Failed to read SVG file", "Failed to parse SVG file", "Failed to create pixel buffer"}

\* C7: whenever the batch fails because an input could not be read, parsed or
\* rasterized, the error reported names the path of an input whose task failed.
C7_ErrorNamesFailingFile ==
  pc = "done" /\ IsErr(exit) /\ exit.err \in RenderErrors =>
    \E i \in DOMAIN task : task[i] = "failed" /\ exit.path = Path(i)

\* C7 for the failures of fs::read and Tree::from_data alone
C7_ReadAndParseErrorsNameFile ==
  pc = "done" /\ IsErr(exit)
     /\ exit.err \in {"Failed to read SVG file", "Failed to parse SVG file"} =>
    \E i \in DOMAIN task : task[i] = "failed" /\ exit.path = Path(i)

\* the names a content stream paints
Painted(content) ==
  { content[n][1][1] : n \in { m \in DOMAIN content : content[m][2] = "Do" } }

\* C8: every page dictionary references one resource dictionary and one content
\* stream of the document; the resource dictionary holds exactly one named image
\* reference, its name Im1 is the name the content stream paints, and the image
\* it names is the image created for that page, which holds that page's pixels.
C8_PageWiring ==
  \A d \in Documents :
    \A k \in 1..Len(KidsOf(d)) :
      LET page == d.objects[KidsOf(d)[k]]
          resources == d.objects[page.dict.Resources]
          contents == d.objects[page.dict.Contents]
          image_ref == resources.dict.XObject["Im1"]
      IN  /\ HasType(page, "Page")
          /\ IsResources(resources)
          /\ DOMAIN resources.dict = {"XObject"}
          /\ DOMAIN resources.dict.XObject = {"Im1"}
          /\ contents.kind = "Stream" /\ ~IsImage(contents)
          /\ Painted(contents.content) = DOMAIN resources.dict.XObject
          /\ IsImage(d.objects[image_ref])
          /\ d.objects[image_ref].content = rendered_pages[k].rgb_data
          /\ image_ref[1] < page.dict.Contents[1]
          /\ page.dict.Contents[1] < page.dict.Resources[1]
          /\ page.dict.Resources[1] < KidsOf(d)[k][1]
          /\ (k > 1 => KidsOf(d)[k - 1][1] < image_ref[1])

\* a written document of two pages
C8_Witness ==
  /\ output.state = "written"
  /\ Len(KidsOf(output.doc)) = 2

\* C9: an assembled document holds exactly one catalog and exactly one page
\* tree, the catalog's Pages is that page tree and the trailer's Root is that
\* catalog.
C9_OneCatalogOnePageTree ==
  \A d \in Documents :
    /\ Cardinality(OfType(d, "Catalog")) = 1
    /\ Cardinality(OfType(d, "Pages")) = 1
    /\ \A c \in OfType(d, "Catalog") :
         /\ d.objects[c].dict.Pages \in OfType(d, "Pages")
         /\ d.trailer["Root"] = c

\* an assembled document of one page, not yet saved
C9_Witness ==
  /\ pc = "save"
  /\ Len(page_ids) = 1
  /\ Cardinality(Ids(doc)) = 6

\* the references of a document as edges << holder, key, target >>
Edges(d) ==
  UNION { { << id, kr[1], kr[2] >> : kr \in RefsOf(d.objects[id]) } : id \in Ids(d) }

\* the ids reached from the ids of S along the edges of E
RECURSIVE Reach(_, _)
Reach(S, E) ==
  LET next == S \cup { e[3] : e \in { x \in E : x[1] \in S } }
  IN  IF next = S THEN S ELSE Reach(next, E)

Successors(id, E) == { e[3] : e \in { x \in E : x[1] = id } }
Acyclic(ids, E) == \A id \in ids : id \notin Reach(Successors(id, E), E)
NotParent(E) == { e \in E : e[2] # "Parent" }

\* C10 as claimed: the references form a directed acyclic graph rooted at the
\* catalog: no object is reached from itself, and every object is reached from
\* the catalog.
C10_ReferencesFormDag ==
  \A d \in Documents :
    /\ Acyclic(Ids(d), Edges(d))
    /\ Reach(OfType(d, "Catalog"), Edges(d)) = Ids(d)

\* C10 as amended: the references other than the pages' Parent back-references
\* form a directed acyclic graph rooted at the catalog, every object is reached
\* from the catalog along them, and the Parent of every page is the page tree
\* that lists it, so that each page lies on a cycle with the page tree.
C10_DagApartFromParent ==
  \A d \in Documents :
    /\ Acyclic(Ids(d), NotParent(Edges(d)))
    /\ Reach(OfType(d, "Catalog"), NotParent(Edges(d))) = Ids(d)
    /\ \A e \in Edges(d) :
         e[2] = "Parent" => << e[3], "Kids", e[1] >> \in Edges(d)
    /\ \A e \in Edges(d) :
         e[2] = "Kids" => << e[3], "Parent", e[1] >> \in Edges(d)

\* a written document of three pages
C10_Witness ==
  /\ output.state = "written"
  /\ Len(entries) = 3
  /\ Cardinality(Ids(output.doc)) > 3

\* C11: every rendered page holds exactly width * height * 3 bytes of pixel
\* data, and every image object's stream is as long as its declared
\* Width * Height * 3.
C11_PixelBufferSize ==
  /\ \A i \in DOMAIN results :
       results[i] # None =>
         results[i].rgb_data.len = results[i].width * results[i].height * 3
  /\ \A k \in DOMAIN rendered_pages :
       rendered_pages[k].rgb_data.len
         = rendered_pages[k].width * rendered_pages[k].height * 3
  /\ doc # None =>
       \A id \in Ids(doc) :
         IsImage(doc.objects[id]) =>
           doc.objects[id].content.len
             = doc.objects[id].dict.Width * doc.objects[id].dict.Height * 3

\* two image objects in the document under construction
C11_Witness ==
  /\ pc = "build"
  /\ Cardinality({ id \in Ids(doc) : IsImage(doc.objects[id]) }) = 2

\* C12, as test_scale_svg states it: the raster of a rendered page is as wide
\* and as high as the source's intrinsic size times the scale, truncated.
C12_RasterIsScaledSize ==
  \A i \in DOMAIN results :
    results[i] # None =>
      /\ results[i].width = (FileOf(i).w * scale) \div 10
      /\ results[i].height = (FileOf(i).h * scale) \div 10

\* C13: no object identifier is allocated and no object is added to the
\* document while a render task is running or not yet started: the document
\* exists only after collect returned every task's page, and is then built by
\* main alone.
C13_GraphAfterRendering ==
  /\ pc \in {"start", "render"} =>
       doc = None /\ page_ids = << >> /\ rendered_pages = << >>
  /\ doc # None =>
       /\ AllOk
       /\ Running = {}
       /\ Len(rendered_pages) = Len(task)
       /\ progress.finished

\* the first page built after three tasks finished out of order
C13_Witness ==
  /\ pc = "build"
  /\ Len(page_ids) = 1
  /\ Len(task) = 3
  /\ completed[1] = 2
\* the page dictionaries of the document under construction
PagesBuilt == IF doc = None THEN {} ELSE OfType(doc, "Page")

\* a state in which the page tree, if stored, is complete
PageTreeComplete ==
  doc # None =>
    /\ pages_id = << 1, 0 >>
    /\ \A id \in PagesBuilt : doc.objects[id].dict.Parent = pages_id
    /\ \A id \in Ids(doc) : id # pages_id => id[1] > pages_id[1]
    /\ pages_id \in Ids(doc) =>
         /\ HasType(doc.objects[pages_id], "Pages")
         /\ Len(doc.objects[pages_id].dict.Kids) = Len(entries)
         /\ doc.objects[pages_id].dict.Count = Len(entries)
         /\ Range(doc.objects[pages_id].dict.Kids) = PagesBuilt
         /\ Cardinality(PagesBuilt) = Len(entries)
    /\ OfType(doc, "Pages") \subseteq {pages_id}

\* a step that leaves a stored page tree as it is
PageTreeWrittenOnce ==
  (doc # None /\ pages_id \in Ids(doc)) =>
    (pages_id \in Ids(doc') /\ doc'.objects[pages_id] = doc.objects[pages_id])

\* C14: the page tree's identifier is allocated before any page object and is
\* the Parent of every page; the page tree is stored once, after all N pages
\* exist, and the object table never holds a page tree with fewer than N
\* children.
C14_PageTreeFilledOnce == [] PageTreeComplete /\ [][PageTreeWrittenOnce]_vars

\* the page tree stored with three children, the catalog not yet added
C14_Witness ==
  /\ pc = "catalog"
  /\ Len(doc.objects[pages_id].dict.Kids) = 3

\* the number of objects the document holds at each point of the assembly
ObjectsExpected ==
  4 * Len(page_ids) + (IF pc \in {"catalog", "save", "done"} THEN 1 ELSE 0)
                    + (IF pc \in {"save", "done"} THEN 1 ELSE 0)

\* C15: identifiers are issued in increasing order, one per object, and none is
\* used twice: the table holds one object per identifier issued (the page
\* tree's from the moment it is filled in), the pages' identifiers increase in
\* input order, and an assembled document of N pages holds exactly 4N+2 objects.
C15_UniqueIncreasingIds ==
  doc # None =>
    /\ Cardinality(Ids(doc)) = ObjectsExpected
    /\ Ids(doc) \cup {pages_id} = { << n, 0 >> : n \in 1..doc.max_id }
    /\ \A j, k \in DOMAIN page_ids : j < k => page_ids[j][1] < page_ids[k][1]
    /\ (\A d \in Documents : Cardinality(Ids(d)) = 4 * Len(entries) + 2)
    /\ (pc \in {"save", "done"} => doc.trailer["Root"] = << doc.max_id, 0 >>)

\* an assembled document of three pages: fourteen objects
C15_Witness ==
  /\ pc = "save"
  /\ Cardinality(Ids(doc)) = 14
\* the object an assembled document holds under number n, written out from the
\* enumerated inputs ins and the scale sc alone
GraphObject(n, ins, sc) ==
  LET k == (n + 2) \div 4
  IN  IF n = 1
      THEN [kind |-> "Dictionary",
            dict |-> [Type |-> "Pages", Count |-> Len(ins),
                      Kids |-> [j \in 1..Len(ins) |-> << 4 * j + 1, 0 >>]]]
      ELSE IF n = 4 * Len(ins) + 2
      THEN [kind |-> "Dictionary", dict |-> [Type |-> "Catalog", Pages |-> << 1, 0 >>]]
      ELSE IF n = 4 * k - 2
      THEN [kind |-> "Stream",
            dict |-> [Type |-> "XObject", Subtype |-> "Image", Width |-> 960,
                      Height |-> 720, ColorSpace |-> "DeviceRGB", BitsPerComponent |-> 8],
            content |-> [len |-> 960 * 720 * 3,
                         pixels |-> [tree |-> ins[k],
                                     transform |-> [sx |-> sc, kx |-> 0, ky |-> 0,
                                                    sy |-> sc, tx |-> 0, ty |-> 0]]]]
      ELSE IF n = 4 * k - 1
      THEN [kind |-> "Stream", dict |-> << >>,
            content |-> << << << >>, "q" >>, << << 960, 0, 0, 720, 0, 0 >>, "cm" >>,
                           << << "Im1" >>, "Do" >>, << << >>, "Q" >> >>]
      ELSE IF n = 4 * k
      THEN [kind |-> "Dictionary", dict |-> [XObject |-> [Im1 |-> << 4 * k - 2, 0 >>]]]
      ELSE [kind |-> "Dictionary",
            dict |-> [Type |-> "Page", Parent |-> << 1, 0 >>,
                      MediaBox |-> << 0, 0, 960, 720 >>,
                      Resources |-> << 4 * k, 0 >>, Contents |-> << 4 * k - 1, 0 >>]]

\* C16: the assembled graph is a function of the enumerated input list and the
\* scale alone: whatever the order in which the render tasks completed, every
\* object has the same identifier, the same references and the same content,
\* the transform matrix of every content stream included.
C16_GraphDeterminedByInputs ==
  \A d \in Documents :
    LET ins == SvgEntries(dir)
    IN  /\ Ids(d) = { << n, 0 >> : n \in 1..(4 * Len(ins) + 2) }
        /\ \A n \in 1..(4 * Len(ins) + 2) :
             d.objects[<< n, 0 >>] = GraphObject(n, ins, scale)
        /\ d.trailer = [x \in {"Root"} |-> << 4 * Len(ins) + 2, 0 >>]
        /\ d.version = "1.5"

\* a written document of three pages whose tasks completed last, first, second
C16_Witness ==
  /\ output.state = "written"
  /\ completed = << 3, 1, 2 >>

\* the objects that reference id in the document under construction
Referrers(id) == { x \in Ids(doc) : id \in Targets(doc.objects[x]) }

\* C17: the builder creates the four objects of a page together, in the order
\* image, content stream, resource dictionary, page dictionary, and before any
\* object of the next page; no image, content stream or resource dictionary is
\* referenced by more than one page.
C17_FourObjectsPerPage ==
  doc # None /\ pc \in {"build", "catalog", "save", "done"} =>
    /\ Cardinality(PagesBuilt) = Len(page_ids)
    /\ \A k \in DOMAIN page_ids :
         LET p == page_ids[k][1]
         IN  /\ p = 4 * k + 1
             /\ IsImage(doc.objects[<< p - 3, 0 >>])
             /\ doc.objects[<< p - 2, 0 >>].kind = "Stream"
             /\ ~IsImage(doc.objects[<< p - 2, 0 >>])
             /\ IsResources(doc.objects[<< p - 1, 0 >>])
             /\ HasType(doc.objects[<< p, 0 >>], "Page")
             /\ Referrers(<< p - 3, 0 >>) = { << p - 1, 0 >> }
             /\ Referrers(<< p - 2, 0 >>) = { << p, 0 >> }
             /\ Referrers(<< p - 1, 0 >>) = { << p, 0 >> }
    /\ \A id \in Ids(doc) :
         (id # pages_id /\ ~HasType(doc.objects[id], "Catalog")) =>
           id[1] <= 4 * Len(page_ids) + 1

\* two of three pages built: eight objects, the page tree not yet stored
C17_Witness ==
  /\ pc = "build"
  /\ Len(page_ids) = 2
  /\ Len(rendered_pages) = 3
  /\ Cardinality(Ids(doc)) = 8
\* C18: for the k-th page, rendered w wide and h high, the content stream is
\* the four instructions q, [w 0 0 h 0 0] cm, /Im1 Do, Q in that order, the
\* image declares Width w, Height h, DeviceRGB at 8 bits per component and no
\* Filter, and the page's MediaBox is [0 0 w h].
C18_PageGeometry ==
  \A d \in Documents :
    \A k \in 1..Len(KidsOf(d)) :
      LET page == d.objects[KidsOf(d)[k]]
          w == rendered_pages[k].width
          h == rendered_pages[k].height
          image == ImageOfPage(d, KidsOf(d)[k])
      IN  /\ d.objects[page.dict.Contents].content =
               << << << >>, "q" >>, << << w, 0, 0, h, 0, 0 >>, "cm" >>,
                  << << "Im1" >>, "Do" >>, << << >>, "Q" >> >>
          /\ image.dict.Width = w /\ image.dict.Height = h
          /\ image.dict.ColorSpace = "DeviceRGB"
          /\ image.dict.BitsPerComponent = 8
          /\ "Filter" \notin DOMAIN image.dict
          /\ page.dict.MediaBox = << 0, 0, w, h >>

\* a document of three pages at scale 0.1, about to be saved
C18_Witness ==
  /\ pc = "save"
  /\ scale = 1
  /\ Len(KidsOf(doc)) = 3

\* how a finished run ended
SaveFailed == exit = Err("save", NoPath)
Outcome ==
  pc = "done" /\ entries # << >> =>
    /\ exit = Ok <=> output.state = "written"
    /\ exit = Ok =>
         /\ AllOk
         /\ \A p \in DOMAIN reads : reads[p] <= 1
         /\ Cardinality(Ids(output.doc)) = 4 * Len(entries) + 2
         /\ output.doc = doc
    /\ exit # Ok =>
         /\ IsErr(exit)
         /\ SaveFailed \/ \E i \in DOMAIN task : task[i] = "failed"
         /\ SaveFailed => AllOk
         /\ \A p \in DOMAIN reads : reads[p] <= 1

\* the steps main and the render closures have left at most
Variant ==
  LET n == Len(entries)
      left == 2 * Cardinality({ i \in DOMAIN task : task[i] = "pending" })
                + Cardinality(Running)
  IN  CASE pc = "start" -> 3 * Len(dir) + 7
        [] pc = "render" -> left + n + 6
        [] pc = "rendered" -> n + 5
        [] pc = "build" -> (n - Len(page_ids)) + 3
        [] pc = "catalog" -> 2
        [] pc = "save" -> 1
        [] pc = "done" -> 0

\* C19: under fair scheduling every run ends; a run on a non-empty input set
\* ends either in success, after all N tasks succeeded, the graph was assembled
\* and the file was written, or in failure, after a task or the write failed;
\* no task is run again: every step brings the natural number Variant down
\* (nothing is tried again), and the run reaches done.
C19_RunTerminates ==
  /\ [] (Outcome /\ Variant >= 0)
  /\ [][Variant' < Variant]_vars
  /\ <>(pc = "done")

\* a run that failed at the write, after three pages were assembled
C19_Witness ==
  /\ pc = "done"
  /\ SaveFailed
  /\ Len(page_ids) = 3

\* C20: the progress counter equals the number of render tasks that finished
\* successfully, never exceeds N, and equals N once the 'rendering complete'
\* message is emitted; a failed task does not count.
C20_ProgressCountsOkTasks ==
  /\ progress.pos = Cardinality({ i \in DOMAIN task : task[i] = "ok" })
  /\ progress.pos <= progress.len
  /\ progress.len = Len(entries)
  /\ progress.finished => progress.pos = Len(entries) /\ Len(entries) > 0
  /\ progress.finished <=> pc \notin {"start", "render"} /\ AllOk

\* one task rendered, one failed, one still pending
C20_Witness ==
  /\ pc = "render"
  /\ progress.pos = 1
  /\ \E i, j \in DOMAIN task : task[i] = "failed" /\ task[j] = "pending"

\* the scheduling of the worker pool and of main: a step that can be taken is
\* eventually taken
FairSpec == Spec /\ WF_vars(Next)
====
